---- MODULE Spec2Model ----
(***************************************************************************)
(* Model of solang's Substrate metadata generation (src/abi/substrate.rs): *)
(* the translation of ast::Type values into scale_info registry entries    *)
(* (resolve_ast, int_to_ty, primitive_to_ty), the deduplicating registry   *)
(* (get_or_register_ty) and the assembly of layout, constructors, messages *)
(* and events in gen_project.                                              *)
(*                                                                         *)
(* A scale_info Type is modelled by its type_def alone: path, type_params  *)
(* and docs are Default::default() at every construction site of the file. *)
(* Option<T> is a sequence of length 0 (None) or 1 (Some).  A panic        *)
(* (unreachable!()) is a result whose ret is None.                         *)
(***************************************************************************)
EXTENDS Naturals, Sequences, FiniteSets, TLC

VARIABLES
    ns,           \* the ast::Namespace the pass reads (never written)
    registry,     \* PortableRegistry.types : sequence of PortableType
    cache,        \* Cache = HashMap<ast::Type, PortableType>
    status,       \* "running", "done" or "panic"
    call,         \* the last call made: its operation, argument, result and pre-state
    ncalls,       \* number of calls made so far
    returned,     \* every call that returned so far: its operation, argument and result
    contract,     \* ns.contracts[contract_no] with its functions and events
    pc,           \* position of gen_project: "layout", "constructors", "messages", "events", "assemble", "returned"
    idx,          \* index of the next item of the current phase
    fields,       \* layout cells built so far
    constructors, \* ConstructorSpecs built so far
    messages,     \* MessageSpecs built so far
    events,       \* EventSpecs built so far
    project,      \* Option<InkProject>: the value gen_project returned
    previous      \* Option<InkProject>: the value an earlier run on the same input returned

vars == <<ns, registry, cache, status, call, ncalls, returned, contract, pc, idx,
          fields, constructors, messages, events, project, previous>>

----------------------------------------------------------------------------
(* Bounds of the model *)

MaxCalls == 2        \* calls in a free sequence of registry operations
MaxWidth == 320      \* largest integer bit width drawn as an input
MaxDisc == 3         \* largest enum discriminant drawn as an input
MaxFunctions == 3    \* functions of a contract
MaxVars == 2         \* storage variables of a contract

----------------------------------------------------------------------------
(* Option and results *)

None == <<>>
Some(x) == <<x>>
IsSome(o) == Len(o) = 1
Unwrap(o) == o[1]

\* a call that returned pty leaving the registry reg
Ok(reg, pty) == [registry |-> reg, ret |-> Some(pty)]
\* a call that panicked after having brought the registry to reg
Panicked(reg) == [registry |-> reg, ret |-> None]

----------------------------------------------------------------------------
(* ast::Type *)

Bool == [tag |-> "Bool"]
String == [tag |-> "String"]
Uint(n) == [tag |-> "Uint", n |-> n]
Int(n) == [tag |-> "Int", n |-> n]
Address == [tag |-> "Address"]
Contract(no) == [tag |-> "Contract", no |-> no]
Bytes(n) == [tag |-> "Bytes", n |-> n]
DynamicBytes == [tag |-> "DynamicBytes"]
Array(elem, dims) == [tag |-> "Array", elem |-> elem, dims |-> dims]
Struct(no) == [tag |-> "Struct", no |-> no]
Enum(no) == [tag |-> "Enum", no |-> no]
UserType(no) == [tag |-> "UserType", no |-> no]
Ref(t) == [tag |-> "Ref", inner |-> t]
StorageRef(t) == [tag |-> "StorageRef", inner |-> t]
InternalFunction == [tag |-> "InternalFunction"]
ExternalFunction == [tag |-> "ExternalFunction"]
Mapping == [tag |-> "Mapping"]
Rational == [tag |-> "Rational"]

\* ast::ArrayLength
Fixed(d) == [fixed |-> TRUE, len |-> d]
Dynamic == [fixed |-> FALSE, len |-> 0]

----------------------------------------------------------------------------
(* scale_info::Type, by its TypeDef *)

Primitive(p) == [def |-> "Primitive", prim |-> p]
Composite(fs) == [def |-> "Composite", fields |-> fs]
TypeDefArray(len, id) == [def |-> "Array", len |-> len, type_param |-> id]
TypeDefSequence(id) == [def |-> "Sequence", type_param |-> id]
TypeDefVariant(vs) == [def |-> "Variant", variants |-> vs]

\* scale_info::Field { name, ty, type_name } (docs are always empty)
Field(name, ty, type_name) == [name |-> name, ty |-> ty, type_name |-> type_name]
\* scale_info::Variant { name, fields, index }
Variant(name, fs, index) == [name |-> name, fields |-> fs, index |-> index]
PortableType(id, ty) == [id |-> id, ty |-> ty]

----------------------------------------------------------------------------
(* The registry *)

\* position (1-based) of the first entry whose ty equals ty, 0 if none:
\* registry.types().iter().find(|e| e.ty == *ty)
RECURSIVE find_from(_, _, _)
find_from(reg, ty, i) ==
    IF i > Len(reg) THEN 0
    ELSE IF reg[i].ty = ty THEN i
    ELSE find_from(reg, ty, i + 1)

find(reg, ty) == find_from(reg, ty, 1)

\* a registry that pushes without looking for an equal entry
get_or_register_ty_nodedup(ty, reg) ==
    Ok(Append(reg, PortableType(Len(reg), ty)), PortableType(Len(reg), ty))

\* a registry that numbers its entries from one
pushed_from_one(ty, reg, i) ==
    IF i # 0
    THEN Ok(reg, reg[i])
    ELSE Ok(Append(reg, PortableType(Len(reg) + 1, ty)), PortableType(Len(reg) + 1, ty))

get_or_register_ty_from_one(ty, reg) == pushed_from_one(ty, reg, find(reg, ty))

\* a registry whose id counter outlives the run that made it
found_or_pushed_static_counter(ty, reg, i) ==
    IF i # 0
    THEN Ok(reg, reg[i])
    ELSE IF previous = None
         THEN Ok(Append(reg, PortableType(Len(reg), ty)), PortableType(Len(reg), ty))
         ELSE Ok(Append(reg, PortableType(Len(Unwrap(previous).registry) + Len(reg), ty)),
                 PortableType(Len(Unwrap(previous).registry) + Len(reg), ty))

\* the two branches of get_or_register_ty, i being what find returned
found_or_pushed(ty, reg, i) ==
    IF i # 0
    THEN Ok(reg, reg[i])
    ELSE Ok(Append(reg, PortableType(Len(reg), ty)), PortableType(Len(reg), ty))

get_or_register_ty(ty, reg) == found_or_pushed(ty, reg, find(reg, ty))

----------------------------------------------------------------------------
(* Integers and primitives *)

\* u16::next_power_of_two: the smallest power of two >= n
RECURSIVE npot_from(_, _)
npot_from(n, p) == IF p >= n THEN p ELSE npot_from(n, 2 * p)

next_power_of_two_down(n) ==
    IF npot_from(n, 1) = n THEN n ELSE npot_from(n, 1) \div 2

next_power_of_two(n) == npot_from(n, 1)

\* format!("u{}", ..) / format!("i{}", ..): the prefix and the number printed
scalety_unsigned(ty) == [sign |-> "u", bits |-> next_power_of_two(ty.n)]

scalety(ty) ==
    [sign |-> IF ty.tag = "Uint" THEN "u" ELSE "i",
     bits |-> next_power_of_two(ty.n)]

\* match scalety.as_str() { "u8" => U8, ..., _ => unreachable!() }
primitive_of_clamped(s) ==
    IF s.sign = "u"
    THEN (CASE s.bits = 8 -> Some("U8") [] s.bits = 16 -> Some("U16")
            [] s.bits = 32 -> Some("U32") [] s.bits = 64 -> Some("U64")
            [] s.bits = 128 -> Some("U128") [] OTHER -> Some("U256"))
    ELSE (CASE s.bits = 8 -> Some("I8") [] s.bits = 16 -> Some("I16")
            [] s.bits = 32 -> Some("I32") [] s.bits = 64 -> Some("I64")
            [] s.bits = 128 -> Some("I128") [] OTHER -> Some("I256"))

primitive_of(s) ==
    IF s.sign = "u"
    THEN (CASE s.bits = 8 -> Some("U8") [] s.bits = 16 -> Some("U16")
            [] s.bits = 32 -> Some("U32") [] s.bits = 64 -> Some("U64")
            [] s.bits = 128 -> Some("U128") [] s.bits = 256 -> Some("U256")
            [] OTHER -> None)
    ELSE (CASE s.bits = 8 -> Some("I8") [] s.bits = 16 -> Some("I16")
            [] s.bits = 32 -> Some("I32") [] s.bits = 64 -> Some("I64")
            [] s.bits = 128 -> Some("I128") [] s.bits = 256 -> Some("I256")
            [] OTHER -> None)

\* returns the Type (not the PortableType) after registering it
registered_primitive(def, reg) ==
    IF def = None
    THEN Panicked(reg)
    ELSE Ok(get_or_register_ty(Primitive(Unwrap(def)), reg).registry, Primitive(Unwrap(def)))

int_to_ty(ty, reg) == registered_primitive(primitive_of(scalety(ty)), reg)

primitive_to_ty(ty, reg) ==
    CASE ty.tag \in {"Int", "Uint"} -> int_to_ty(ty, reg)
      [] ty.tag = "Bool" -> Ok(reg, Primitive("Bool"))
      [] ty.tag = "String" -> Ok(reg, Primitive("Str"))
      [] OTHER -> Panicked(reg)

----------------------------------------------------------------------------
(* resolve_ast, one operator per match arm *)

\* the rest F of a function after a call r it makes: a panic in r ends it,
\* otherwise F goes on with the value r returned and the registry r left
Then(r, F(_, _)) == IF r.ret = None THEN r ELSE F(Unwrap(r.ret), r.registry)

RECURSIVE resolve_ast(_, _, _, _)
RECURSIVE resolve_fields(_, _, _, _, _)

\* [u8; address_length], the type the Address arm resolves first
AddressArray(n) == Array(Uint(8), <<Fixed(n.address_length)>>)

\* ast::Type::Address(_) | ast::Type::Contract(_)
resolve_address(ty, n, reg, c) ==
    Then(resolve_ast(AddressArray(n), n, reg, c),
         LAMBDA address_ty, reg1 :
             get_or_register_ty(Composite(<<Field(None, address_ty.id, None)>>), reg1))

\* a primitive arm that pushes its entry without looking for an equal one
resolve_primitive_nodedup(ty, n, reg, c) ==
    Then(primitive_to_ty(ty, reg),
         LAMBDA t, reg1 : get_or_register_ty_nodedup(t, reg1))

\* ast::Type::Bool | Int(_) | Uint(_) | String
resolve_primitive(ty, n, reg, c) ==
    Then(primitive_to_ty(ty, reg),
         LAMBDA t, reg1 : get_or_register_ty(t, reg1))

\* the TypeDef of one dimension around the entry id
dim_def(d, id) == IF d.fixed THEN TypeDefArray(d.len, id) ELSE TypeDefSequence(id)

RECURSIVE wrap_dims(_, _, _)

\* a loop that gives each wrapper the id the wrapper itself is about to get
wrap_dims_own_id(pty, dims, reg) ==
    IF dims = <<>>
    THEN Ok(reg, pty)
    ELSE Then(get_or_register_ty(dim_def(Head(dims), Len(reg)), reg),
              LAMBDA t, reg1 : wrap_dims(t, Tail(dims), reg1))

\* a loop that wraps the last dimension first
RECURSIVE wrap_dims_reversed(_, _, _)
wrap_dims_reversed(pty, dims, reg) ==
    IF dims = <<>>
    THEN Ok(reg, pty)
    ELSE Then(get_or_register_ty(dim_def(dims[Len(dims)], pty.id), reg),
              LAMBDA t, reg1 :
                  wrap_dims_reversed(t, SubSeq(dims, 1, Len(dims) - 1), reg1))

\* the loop over dims of the Array arm: one wrapper per dimension, in order
wrap_dims(pty, dims, reg) ==
    IF dims = <<>>
    THEN Ok(reg, pty)
    ELSE Then(get_or_register_ty(dim_def(Head(dims), pty.id), reg),
              LAMBDA t, reg1 : wrap_dims(t, Tail(dims), reg1))

\* ast::Type::Array(ty, dims)
resolve_array(ty, n, reg, c) ==
    Then(resolve_ast(ty.elem, n, reg, c),
         LAMBDA e, reg1 : wrap_dims(e, ty.dims, reg1))

\* ast::Type::Bytes(n)
resolve_bytes(ty, n, reg, c) ==
    resolve_ast(Array(Uint(8), <<Fixed(ty.n)>>), n, reg, c)

\* ast::Type::DynamicBytes
resolve_dynamic_bytes(ty, n, reg, c) ==
    resolve_ast(Array(Uint(8), <<Dynamic>>), n, reg, c)

\* def.fields.iter().map(|f| ..).collect(): the fields resolved left to right;
\* the value returned is the vector of Fields
resolve_fields(fs, n, reg, c, acc) ==
    IF fs = <<>>
    THEN Ok(reg, acc)
    ELSE Then(resolve_ast(Head(fs).ty, n, reg, c),
              LAMBDA f_ty, reg1 :
                  resolve_fields(Tail(fs), n, reg1, c,
                      Append(acc, Field(Some(Head(fs).name), f_ty.id, None))))

\* ast::Type::Struct(s)
resolve_struct(ty, n, reg, c) ==
    Then(resolve_fields(n.structs[ty.no + 1].fields, n, reg, c, <<>>),
         LAMBDA fs, reg1 : get_or_register_ty(Composite(fs), reg1))

\* insertion of v into a sequence sorted by discriminant, after its equals
RECURSIVE insert_sorted(_, _)
insert_sorted(sorted, v) ==
    IF sorted = <<>> THEN <<v>>
    ELSE IF Head(sorted).disc <= v.disc
         THEN <<Head(sorted)>> \o insert_sorted(Tail(sorted), v)
         ELSE <<v>> \o sorted

RECURSIVE sort_from(_, _)
sort_from(values, sorted) ==
    IF values = <<>> THEN sorted
    ELSE sort_from(Tail(values), insert_sorted(sorted, Head(values)))

\* an enum arm that keeps the declaration order
sort_by_discriminant_unsorted(values) == values

\* variants.sort_by(|a, b| a.1 .1.cmp(&b.1 .1)): a stable sort
sort_by_discriminant(values) == sort_from(values, <<>>)

\* `as u8`
as_u8(v) == v % 256

\* the Variant built for one (name, discriminant) pair
to_variant(v) == Variant(v.name, <<>>, as_u8(v.disc))

\* the map over the sorted pairs
to_variants(sorted) == [i \in 1..Len(sorted) |-> to_variant(sorted[i])]

\* ast::Type::Enum(n)
resolve_enum(ty, n, reg, c) ==
    get_or_register_ty(
        TypeDefVariant(to_variants(sort_by_discriminant(n.enums[ty.no + 1].values))),
        reg)

\* a reference arm that wraps the referenced type's entry
resolve_ref_wrapped(ty, n, reg, c) ==
    Then(resolve_ast(ty.inner, n, reg, c),
         LAMBDA t, reg1 :
             get_or_register_ty(Composite(<<Field(None, t.id, None)>>), reg1))

\* ast::Type::Ref(ty) and ast::Type::StorageRef(_, ty)
resolve_ref(ty, n, reg, c) == resolve_ast(ty.inner, n, reg, c)

\* ast::Type::UserType(no)
resolve_user_type(ty, n, reg, c) ==
    resolve_ast(n.user_types[ty.no + 1].ty, n, reg, c)

\* ast::Type::InternalFunction { .. }
resolve_internal_function(ty, n, reg, c) == resolve_ast(Uint(8), n, reg, c)

\* the two types of the ExternalFunction arm
ExternalFunctionFields == <<Address, Uint(32)>>

\* the map over [Address(false), Uint(32)]: fields without a name
RECURSIVE resolve_unnamed(_, _, _, _, _)
resolve_unnamed(tys, n, reg, c, acc) ==
    IF tys = <<>>
    THEN Ok(reg, acc)
    ELSE Then(resolve_ast(Head(tys), n, reg, c),
              LAMBDA t, reg1 :
                  resolve_unnamed(Tail(tys), n, reg1, c,
                      Append(acc, Field(None, t.id, None))))

\* ast::Type::ExternalFunction { .. }
resolve_external_function(ty, n, reg, c) ==
    Then(resolve_unnamed(ExternalFunctionFields, n, reg, c, <<>>),
         LAMBDA fs, reg1 : get_or_register_ty(Composite(fs), reg1))

\* a fallback arm that registers a placeholder instead of failing
resolve_other_placeholder(ty, n, reg, c) == get_or_register_ty(Primitive("U8"), reg)

\* _ => unreachable!()
resolve_other(ty, n, reg, c) == Panicked(reg)

\* the match on ty
resolve_arm(ty, n, reg, c) ==
    CASE ty.tag \in {"Address", "Contract"} -> resolve_address(ty, n, reg, c)
      [] ty.tag \in {"Bool", "Int", "Uint", "String"} -> resolve_primitive(ty, n, reg, c)
      [] ty.tag = "Array" -> resolve_array(ty, n, reg, c)
      [] ty.tag = "Bytes" -> resolve_bytes(ty, n, reg, c)
      [] ty.tag = "DynamicBytes" -> resolve_dynamic_bytes(ty, n, reg, c)
      [] ty.tag = "Struct" -> resolve_struct(ty, n, reg, c)
      [] ty.tag = "Enum" -> resolve_enum(ty, n, reg, c)
      [] ty.tag \in {"Ref", "StorageRef"} -> resolve_ref(ty, n, reg, c)
      [] ty.tag = "InternalFunction" -> resolve_internal_function(ty, n, reg, c)
      [] ty.tag = "ExternalFunction" -> resolve_external_function(ty, n, reg, c)
      [] ty.tag = "UserType" -> resolve_user_type(ty, n, reg, c)
      [] OTHER -> resolve_other(ty, n, reg, c)

resolve_ast(ty, n, reg, c) ==
    IF ty \in DOMAIN c
    THEN Ok(reg, c[ty])
    ELSE resolve_arm(ty, n, reg, c)

----------------------------------------------------------------------------
(* gen_project: layout, constructors, messages, events *)

\* the hexadecimal digit of v at 16^place; the slots of the model are below 16^7
hex_digit(v, place) == IF place < 7 THEN (v \div (16 ^ place)) % 16 ELSE 0

\* format!("{:064X}", slot): width hexadecimal digits, most significant first
hex_digits(v, width) == [i \in 1..width |-> hex_digit(v, width - i)]

format_064X(slot) == hex_digits(slot, 64)

\* <[u8; 32]>::from_hex(key_str): two digits a byte
from_hex(ds) == [i \in 1..(Len(ds) \div 2) |-> 16 * ds[2 * i - 1] + ds[2 * i]]

\* Type::contains_mapping(ns), of sema
RECURSIVE contains_mapping(_, _)
contains_mapping(ty, n) ==
    CASE ty.tag = "Mapping" -> TRUE
      [] ty.tag = "Array" -> contains_mapping(ty.elem, n)
      [] ty.tag \in {"Ref", "StorageRef"} -> contains_mapping(ty.inner, n)
      [] ty.tag = "Struct" ->
            \E i \in 1..Len(n.structs[ty.no + 1].fields) :
                contains_mapping(n.structs[ty.no + 1].fields[i].ty, n)
      [] OTHER -> FALSE

\* FieldLayout::new_custom(var.name, Layout::Cell(CellLayout::new_from_ty(key, ty.id)))
field_layout(var, id) ==
    [name |-> var.name, key |-> from_hex(format_064X(var.slot)), ty |-> id]

\* a closure that gives every variable of the layout a cell
layout_field_unfiltered(var, n, reg, c) ==
    Then(resolve_ast(var.ty, n, reg, c),
         LAMBDA ty, reg1 : Ok(reg1, Some(field_layout(var, ty.id))))

\* the filter_map closure over contract.layout: Some(FieldLayout) or None
layout_field(var, n, reg, c) ==
    IF ~contains_mapping(var.ty, n) /\ var.fits_in_memory
    THEN Then(resolve_ast(var.ty, n, reg, c),
              LAMBDA ty, reg1 : Ok(reg1, Some(field_layout(var, ty.id))))
    ELSE Ok(reg, None)

\* a map that takes the entry pushed last for the one the parameter resolved to
RECURSIVE resolve_params_last_id(_, _, _, _, _)
resolve_params_last_id(ps, n, reg, c, acc) ==
    IF ps = <<>>
    THEN Ok(reg, acc)
    ELSE Then(resolve_ast(Head(ps).ty, n, reg, c),
              LAMBDA ty, reg1 :
                  resolve_params_last_id(Tail(ps), n, reg1, c,
                      Append(acc, [label |-> Head(ps).name, ty |-> Len(reg1) - 1])))

\* f.params.iter().map(|p| ..).collect(): MessageParamSpecs, left to right
RECURSIVE resolve_params(_, _, _, _, _)
resolve_params(ps, n, reg, c, acc) ==
    IF ps = <<>>
    THEN Ok(reg, acc)
    ELSE Then(resolve_ast(Head(ps).ty, n, reg, c),
              LAMBDA ty, reg1 :
                  resolve_params(Tail(ps), n, reg1, c,
                      Append(acc, [label |-> Head(ps).name, ty |-> ty.id])))

\* a closure that never marks a constructor payable
f_to_constructor_nonpayable(f, n, reg, c) ==
    Then(resolve_params(f.params, n, reg, c, <<>>),
         LAMBDA args, reg1 :
             Ok(reg1, [label |-> "new", selector |-> f.selector,
                       payable |-> FALSE, args |-> args]))

f_to_constructor(f, n, reg, c) ==
    Then(resolve_params(f.params, n, reg, c, <<>>),
         LAMBDA args, reg1 :
             Ok(reg1, [label |-> "new", selector |-> f.selector,
                       payable |-> f.mutability = "Payable", args |-> args]))

\* a return field without the type name of its TypeSpec
return_field_no_type_name(r_p, id) == Field(r_p.id, id, None)

\* the Field built for one return value: its own name if it has one, and the
\* display name of its TypeSpec (an empty path, printed "") as type_name
return_field(r_p, id) == Field(r_p.id, id, Some(""))

\* f.returns.iter().map(|r_p| ..).collect()
RECURSIVE resolve_returns(_, _, _, _, _)
resolve_returns(rs, n, reg, c, acc) ==
    IF rs = <<>>
    THEN Ok(reg, acc)
    ELSE Then(resolve_ast(Head(rs).ty, n, reg, c),
              LAMBDA ty, reg1 :
                  resolve_returns(Tail(rs), n, reg1, c,
                      Append(acc, return_field(Head(rs), ty.id))))

\* the match on f.returns.len(): the value returned is an Option<type id>
ret_spec(f, n, reg, c) ==
    CASE Len(f.returns) = 0 -> Ok(reg, None)
      [] Len(f.returns) = 1 ->
            Then(resolve_ast(f.returns[1].ty, n, reg, c),
                 LAMBDA ty, reg1 : Ok(reg1, Some(ty.id)))
      [] OTHER ->
            Then(resolve_returns(f.returns, n, reg, c, <<>>),
                 LAMBDA fs, reg1 :
                     Then(get_or_register_ty(Composite(fs), reg1),
                          LAMBDA ty, reg2 : Ok(reg2, Some(ty.id))))

f_to_message(f, n, reg, c) ==
    Then(ret_spec(f, n, reg, c),
         LAMBDA rt, reg1 :
             Then(resolve_params(f.params, n, reg1, c, <<>>),
                  LAMBDA args, reg2 :
                      Ok(reg2, [label |-> f.name, selector |-> f.selector,
                                mutates |-> f.mutability \in {"Payable", "Nonpayable"},
                                payable |-> f.mutability = "Payable",
                                args |-> args,
                                returns |-> rt])))

\* e.fields.iter().map(|p| ..).collect(): EventParamSpecs, left to right
RECURSIVE resolve_event_fields(_, _, _, _, _)
resolve_event_fields(ps, n, reg, c, acc) ==
    IF ps = <<>>
    THEN Ok(reg, acc)
    ELSE Then(resolve_ast(Head(ps).ty, n, reg, c),
              LAMBDA ty, reg1 :
                  resolve_event_fields(Tail(ps), n, reg1, c,
                      Append(acc, [label |-> Head(ps).name, ty |-> ty.id,
                                   indexed |-> Head(ps).indexed])))

e_to_evt(e, n, reg, c) ==
    Then(resolve_event_fields(e.fields, n, reg, c, <<>>),
         LAMBDA args, reg1 : Ok(reg1, [label |-> e.name, args |-> args]))

is_constructor(f) == f.ty = "Constructor"

\* the keys of a BTreeMap, in ascending order
RECURSIVE keys(_)
keys(S) ==
    IF S = {} THEN <<>>
    ELSE LET k == CHOOSE x \in S : \A y \in S : x <= y
         IN  <<k>> \o keys(S \ {k})

\* the functions f_to_constructor is mapped over: the contract's constructors,
\* chained with its default constructor
constructor_functions(ct, n) ==
    SelectSeq([i \in 1..Len(ct.functions) |-> n.functions[ct.functions[i] + 1]],
              is_constructor)
        \o ct.default_constructor

\* a filter that looks at the visibility alone
is_message_any_ty(f) ==
    /\ ~f.library
    /\ f.visibility \in {"Public", "External"}

\* the filter_map and filter over all_functions.keys()
is_message(f) ==
    /\ ~f.library
    /\ f.visibility \in {"Public", "External"}
    /\ f.ty = "Function"

\* the functions f_to_message is mapped over
message_functions(ct, n) ==
    LET ks == keys(ct.all_functions)
    IN  SelectSeq([i \in 1..Len(ks) |-> n.functions[ks[i] + 1]], is_message)

\* the events e_to_evt is mapped over
sent_events(ct, n) ==
    [i \in 1..Len(ct.sends_events) |-> n.events[ct.sends_events[i] + 1]]

\* the items each part of gen_project iterates over, in the order of the code
Items(ct, n, phase) ==
    CASE phase = "layout" -> ct.layout
      [] phase = "constructors" -> constructor_functions(ct, n)
      [] phase = "messages" -> message_functions(ct, n)
      [] phase = "events" -> sent_events(ct, n)
      [] OTHER -> <<>>

NextPhase(phase) ==
    CASE phase = "start" -> "layout"
      [] phase = "layout" -> "constructors"
      [] phase = "constructors" -> "messages"
      [] phase = "messages" -> "events"
      [] OTHER -> "assemble"

\* the position after item i of phase: the next item, or the first item of the
\* next part that has one, or the assembly of the project
RECURSIVE After(_, _, _, _)
After(ct, n, phase, i) ==
    IF phase = "assemble" THEN <<"assemble", 1>>
    ELSE IF i < Len(Items(ct, n, phase)) THEN <<phase, i + 1>>
    ELSE After(ct, n, NextPhase(phase), 0)

----------------------------------------------------------------------------
(* Inputs: namespaces and source types *)

\* ns.structs, the StructDecls Type::Struct(no) indexes
StructDecls ==
    << [name |-> "Pair",   fields |-> <<[name |-> "a", ty |-> Uint(32)], [name |-> "b", ty |-> Bool]>>],
       [name |-> "Other",  fields |-> <<[name |-> "x", ty |-> Uint(32)], [name |-> "y", ty |-> Bool]>>],
       [name |-> "Nested", fields |-> <<[name |-> "p", ty |-> Struct(0)], [name |-> "q", ty |-> Bytes(4)]>>],
       [name |-> "Bad",    fields |-> <<[name |-> "m", ty |-> Uint(8)], [name |-> "w", ty |-> Mapping]>>],
       [name |-> "Wide",   fields |-> <<[name |-> "a", ty |-> Uint(24)], [name |-> "b", ty |-> Bool]>>] >>

\* ns.user_types
UserTypeDecls == << [name |-> "Amount", ty |-> Uint(24)], [name |-> "Alias", ty |-> Struct(0)] >>

\* EnumDecl.values in declaration order, with distinct discriminants
EnumValues(names) ==
    { [i \in 1..Len(names) |-> [name |-> names[i], disc |-> d[i]]] :
        d \in { f \in [1..Len(names) -> 0..MaxDisc] :
                  \A i, j \in 1..Len(names) : i # j => f[i] # f[j] } }

Param(name, ty) == [name |-> name, ty |-> ty]
\* a return value: id is its name, if it has one
Return(id, ty) == [id |-> id, ty |-> ty]

\* sel stands for the four bytes f.selector() returns
Function(sel, name, ty, visibility, mutability, params, returns, library) ==
    [name |-> name, ty |-> ty, visibility |-> visibility, mutability |-> mutability,
     params |-> params, returns |-> returns, library |-> library,
     selector |-> <<0, 0, 0, sel>>]

\* ns.functions
FunctionDecls ==
    << Function(0, "", "Constructor", "Public", "Payable", <<Param("e", Enum(0))>>, <<>>, FALSE),
       Function(1, "get", "Function", "Public", "View", <<>>, <<Return(None, Uint(8))>>, FALSE),
       Function(2, "pair", "Function", "External", "Nonpayable", <<Param("p", Struct(0))>>,
                <<Return(None, Uint(32)), Return(None, Bool)>>, FALSE),
       Function(3, "named", "Function", "Public", "View", <<>>,
                <<Return(Some("a"), Uint(32)), Return(Some("b"), Bool)>>, FALSE),
       \* a function whose selector collides with pair's
       Function(2, "same", "Function", "Public", "Pure",
                <<Param("q", Array(Uint(8), <<Fixed(2), Dynamic>>))>>,
                <<Return(None, Uint(24)), Return(None, Bool)>>, FALSE),
       Function(5, "partial", "Function", "Public", "View", <<>>,
                <<Return(Some("a"), Uint(32)), Return(None, Bool)>>, FALSE),
       Function(6, "bad", "Function", "Public", "Nonpayable",
                <<Param("v", Uint(8)), Param("m", Mapping)>>, <<>>, FALSE),
       Function(7, "helper", "Function", "Internal", "Pure", <<Param("m", Mapping)>>, <<>>, FALSE),
       Function(8, "lib", "Function", "Public", "Pure", <<Param("s", String)>>, <<>>, TRUE),
       Function(9, "", "Fallback", "External", "Payable", <<>>, <<>>, FALSE),
       Function(10, "", "Constructor", "Public", "Nonpayable",
                <<Param("v", Uint(8)), Param("b", Bool)>>, <<>>, FALSE) >>

\* contract.default_constructor, when there is one
DefaultConstructor ==
    [name |-> "", ty |-> "Constructor", visibility |-> "Public", mutability |-> "Nonpayable",
     params |-> <<>>, returns |-> <<>>, library |-> FALSE, selector |-> <<0, 0, 0, 255>>]

\* ns.events
EventDecls ==
    << [name |-> "Changed",
        fields |-> << [name |-> "who", ty |-> Address, indexed |-> TRUE],
                      [name |-> "amount", ty |-> Uint(24), indexed |-> FALSE] >>] >>

Namespace(len, e0, e1) ==
    [address_length |-> len,
     structs |-> StructDecls,
     enums |-> << [name |-> "Letters", values |-> e0], [name |-> "Flag", values |-> e1] >>,
     user_types |-> UserTypeDecls,
     functions |-> FunctionDecls,
     events |-> EventDecls]

\* the declaration of the spec's example: {C: 2, A: 0, B: 1}
LettersCAB == << [name |-> "C", disc |-> 2], [name |-> "A", disc |-> 0], [name |-> "B", disc |-> 1] >>
FlagOffOn == << [name |-> "Off", disc |-> 0], [name |-> "On", disc |-> 1] >>

CallNamespaces == { Namespace(len, LettersCAB, FlagOffOn) : len \in {20, 32} }

EnumNamespaces ==
    { Namespace(32, e0, e1) : e0 \in EnumValues(<<"C", "A", "B">>),
                              e1 \in EnumValues(<<"Off", "On">>) }

BaseTypes ==
    { Bool, String, Uint(8), Uint(24), Uint(32), Int(32), Uint(300), Address,
      Contract(0), Bytes(4), DynamicBytes, Struct(0), Struct(1), Struct(2),
      Struct(3), Struct(4), Enum(0), UserType(0), UserType(1),
      InternalFunction, ExternalFunction, Mapping, Rational }

RefTargets ==
    { Uint(24), Struct(0), Address, Bytes(4), Enum(0), Mapping,
      Array(Uint(8), <<Fixed(4)>>) }

DimLists == { <<Fixed(4)>>, <<Dynamic>>, <<Fixed(2), Dynamic>>, <<Dynamic, Fixed(2)>> }

ArrayTypes == { Array(e, d) : e \in {Uint(8), Struct(0), Uint(300)}, d \in DimLists }

SourceTypes ==
    BaseTypes \cup ArrayTypes \cup { Ref(t) : t \in RefTargets }
              \cup { StorageRef(t) : t \in RefTargets }

IntTypes == { Uint(n) : n \in 0..MaxWidth } \cup { Int(n) : n \in 0..MaxWidth }

EnumTypes == { Enum(0), Enum(1) }

\* entries handed to get_or_register_ty directly
RegEntries ==
    { Primitive("U8"), Primitive("Bool"), TypeDefSequence(0),
      Composite(<<Field(Some("a"), 0, None)>>),
      Composite(<<Field(Some("a"), 0, Some(""))>>) }

----------------------------------------------------------------------------
(* Free sequences of calls on one registry *)

NoCall == [op |-> "none", arg |-> None, ret |-> None, pre |-> <<>>]
NoContract ==
    [name |-> "", layout |-> <<>>, functions |-> <<>>, all_functions |-> {},
     default_constructor |-> None, sends_events |-> <<>>]

Idle ==
    /\ contract = NoContract
    /\ pc = "none"
    /\ idx = 0
    /\ fields = <<>>
    /\ constructors = <<>>
    /\ messages = <<>>
    /\ events = <<>>
    /\ project = None
    /\ previous = None

Fresh ==
    /\ registry = <<>>
    /\ cache = <<>>
    /\ status = "running"
    /\ call = NoCall
    /\ ncalls = 0
    /\ returned = {}

UnchangedPass ==
    UNCHANGED <<ns, cache, contract, pc, idx, fields, constructors, messages, events,
                project, previous>>

\* what a call leaves in the history variables
Record(op, arg, r) ==
    /\ call' = [op |-> op, arg |-> Some(arg), ret |-> r.ret, pre |-> registry]
    /\ returned' = IF r.ret = None THEN returned
                   ELSE returned \cup {[op |-> op, arg |-> arg, ret |-> Unwrap(r.ret)]}
    /\ ncalls' = ncalls + 1

\* one call resolve_ast(&T, ns, &mut registry, &mut cache), the limit-th at most
Resolve(T, limit) ==
    /\ status = "running"
    /\ ncalls < limit
    /\ \E r \in {resolve_ast(T, ns, registry, cache)} :
           /\ registry' = r.registry
           /\ Record("resolve_ast", T, r)
           /\ status' = IF r.ret = None THEN "panic" ELSE "running"
    /\ UnchangedPass

ResolveAst(T) == Resolve(T, MaxCalls)
ResolveOnce(T) == Resolve(T, 1)

\* one call get_or_register_ty(&e, &mut registry)
GetOrRegisterTy(e) ==
    /\ status = "running"
    /\ ncalls < MaxCalls
    /\ \E r \in {get_or_register_ty(e, registry)} :
           /\ registry' = r.registry
           /\ Record("get_or_register_ty", e, r)
    /\ UNCHANGED status
    /\ UnchangedPass

----------------------------------------------------------------------------
(* Specifications of free calls *)

InitCalls == ns \in CallNamespaces /\ Fresh /\ Idle
NextCalls ==
    \/ \E T \in SourceTypes : ResolveAst(T)
    \/ \E e \in RegEntries : GetOrRegisterTy(e)
SpecCalls == InitCalls /\ [][NextCalls]_vars

\* registries a pass can have built before it meets an integer type
StartRegistries ==
    { <<>>,
      <<PortableType(0, Primitive("Bool"))>>,
      <<PortableType(0, Primitive("U32")), PortableType(1, Primitive("Bool"))>> }

InitInt ==
    /\ ns \in CallNamespaces
    /\ registry \in StartRegistries
    /\ cache = <<>> /\ status = "running" /\ call = NoCall /\ ncalls = 0 /\ returned = {}
    /\ Idle
NextInt == \E T \in IntTypes : ResolveOnce(T)
SpecInt == InitInt /\ [][NextInt]_vars

InitEnum == ns \in EnumNamespaces /\ Fresh /\ Idle
NextEnum == \E T \in EnumTypes : ResolveAst(T)
SpecEnum == InitEnum /\ [][NextEnum]_vars

----------------------------------------------------------------------------
(* One run of gen_project *)

\* a storage variable of the layout: var.ty and layout.ty are the same type
Var(name, slot, ty, fits) == [name |-> name, slot |-> slot, ty |-> ty, fits_in_memory |-> fits]

VarDecls ==
    << Var("count", 0, Uint(8), TRUE),
       Var("pair", 4660, Struct(0), TRUE),
       Var("balances", 2, Mapping, TRUE),
       Var("big", 258, Array(Uint(8), <<Fixed(2), Dynamic>>), FALSE) >>

\* the increasing sequences of at most max numbers below count
RECURSIVE Increasing(_, _)
Increasing(count, max) ==
    IF max = 0 THEN { <<>> }
    ELSE Increasing(count, max - 1) \cup
         { Append(q, k) : q \in { p \in Increasing(count, max - 1) : Len(p) = max - 1 },
                          k \in 0..(count - 1) }

StrictlyIncreasing(q) == \A i, j \in 1..Len(q) : i < j => q[i] < q[j]

Subsequences(count, max) == { q \in Increasing(count, max) : StrictlyIncreasing(q) }

Range(q) == { q[i] : i \in 1..Len(q) }

Contracts ==
    { [name |-> "C",
       layout |-> [i \in 1..Len(vs) |-> VarDecls[vs[i] + 1]],
       functions |-> fs,
       all_functions |-> Range(fs),
       default_constructor |-> dc,
       sends_events |-> es] :
        vs \in Subsequences(Len(VarDecls), MaxVars),
        fs \in Subsequences(Len(FunctionDecls), MaxFunctions),
        dc \in {None, Some(DefaultConstructor)},
        es \in {<<>>, <<0>>} }

PassNamespaces == { Namespace(32, LettersCAB, FlagOffOn) }

Init ==
    /\ ns \in PassNamespaces
    /\ contract \in Contracts
    /\ Fresh
    /\ pc = After(contract, ns, "start", 0)[1]
    /\ idx = After(contract, ns, "start", 0)[2]
    /\ fields = <<>>
    /\ constructors = <<>>
    /\ messages = <<>>
    /\ events = <<>>
    /\ project = None
    /\ previous = None

Item == Items(contract, ns, pc)[idx]

\* the effect of one closure call r on everything but the list it extends
StepEffect(op, r) ==
    /\ registry' = r.registry
    /\ call' = [op |-> op, arg |-> Some(Item), ret |-> r.ret, pre |-> registry]
    /\ ncalls' = ncalls + 1
    /\ status' = IF r.ret = None THEN "panic" ELSE "running"
    /\ pc' = IF r.ret = None THEN pc ELSE After(contract, ns, pc, idx)[1]
    /\ idx' = IF r.ret = None THEN idx ELSE After(contract, ns, pc, idx)[2]
    /\ UNCHANGED <<ns, cache, returned, contract, project, previous>>

LayoutStep ==
    /\ status = "running" /\ pc = "layout"
    /\ \E r \in {layout_field(Item, ns, registry, cache)} :
           /\ StepEffect("layout_field", r)
           /\ fields' = IF r.ret = None THEN fields ELSE fields \o Unwrap(r.ret)
    /\ UNCHANGED <<constructors, messages, events>>

ConstructorStep ==
    /\ status = "running" /\ pc = "constructors"
    /\ \E r \in {f_to_constructor(Item, ns, registry, cache)} :
           /\ StepEffect("f_to_constructor", r)
           /\ constructors' = IF r.ret = None THEN constructors ELSE constructors \o r.ret
    /\ UNCHANGED <<fields, messages, events>>

MessageStep ==
    /\ status = "running" /\ pc = "messages"
    /\ \E r \in {f_to_message(Item, ns, registry, cache)} :
           /\ StepEffect("f_to_message", r)
           /\ messages' = IF r.ret = None THEN messages ELSE messages \o r.ret
    /\ UNCHANGED <<fields, constructors, events>>

EventStep ==
    /\ status = "running" /\ pc = "events"
    /\ \E r \in {e_to_evt(Item, ns, registry, cache)} :
           /\ StepEffect("e_to_evt", r)
           /\ events' = IF r.ret = None THEN events ELSE events \o r.ret
    /\ UNCHANGED <<fields, constructors, messages>>

\* InkProject::new_portable(layout, spec, registry)
Assemble ==
    /\ status = "running" /\ pc = "assemble"
    /\ project' = Some([layout |-> fields,
                        spec |-> [constructors |-> constructors,
                                  messages |-> messages,
                                  events |-> events],
                        registry |-> registry])
    /\ status' = "done"
    /\ pc' = "returned"
    /\ UNCHANGED <<ns, registry, cache, call, ncalls, returned, contract, idx,
                   fields, constructors, messages, events, previous>>

Next == LayoutStep \/ ConstructorStep \/ MessageStep \/ EventStep \/ Assemble

Spec == Init /\ [][Next]_vars

\* gen_project called once more with the same contract_no and ns, after the
\* first call returned: the registry and the cache are new locals
SecondRun ==
    /\ pc = "returned" /\ previous = None
    /\ previous' = project
    /\ registry' = <<>>
    /\ cache' = <<>>
    /\ status' = "running"
    /\ call' = NoCall
    /\ ncalls' = 0
    /\ pc' = After(contract, ns, "start", 0)[1]
    /\ idx' = After(contract, ns, "start", 0)[2]
    /\ fields' = <<>>
    /\ constructors' = <<>>
    /\ messages' = <<>>
    /\ events' = <<>>
    /\ project' = None
    /\ UNCHANGED <<ns, returned, contract>>

NextTwice == Next \/ SecondRun

SpecTwice == Init /\ [][NextTwice]_vars

----------------------------------------------------------------------------
(* Properties of the registry and of resolution *)

IsCall(op) == call.op = op /\ call.arg # None
Arg == Unwrap(call.arg)
Returned == call.ret # None
Ret == Unwrap(call.ret)

\* pre is a prefix of reg
IsPrefix(pre, reg) ==
    /\ Len(pre) <= Len(reg)
    /\ \A i \in 1..Len(pre) : reg[i] = pre[i]

\* C1: no two registry entries are structurally equal, so the registry is as
\* long as the set of its shapes; and two calls, whatever their source types,
\* that returned structurally identical shapes returned the same id.
C1_Dedup ==
    /\ \A i, j \in 1..Len(registry) :
           registry[i].ty = registry[j].ty => i = j
    /\ Cardinality({ registry[i].ty : i \in 1..Len(registry) }) = Len(registry)
    /\ \A a, b \in returned : a.ret.ty = b.ret.ty => a.ret.id = b.ret.id

\* two different source types got the same id
C1_Witness ==
    \E a, b \in returned :
        /\ a.op = "resolve_ast" /\ b.op = "resolve_ast"
        /\ a.arg = Struct(0) /\ b.arg = Struct(4)
        /\ a.ret = b.ret

\* C2: get_or_register_ty(e) returns the equal entry and leaves the registry
\* unchanged if there is one, and otherwise appends exactly one entry whose id
\* is the previous length; every call keeps the entries already present in
\* place, and the entry at position i has id i.
C2_GetOrRegisterFrame ==
    /\ \A i \in 1..Len(registry) : registry[i].id = i - 1
    /\ IsPrefix(call.pre, registry)
    /\ IsCall("get_or_register_ty") =>
          /\ Returned
          /\ Ret.ty = Arg
          /\ IF \E i \in 1..Len(call.pre) : call.pre[i].ty = Arg
             THEN /\ registry = call.pre
                  /\ \E i \in 1..Len(call.pre) : call.pre[i] = Ret
             ELSE /\ registry = Append(call.pre, Ret)
                  /\ Ret.id = Len(call.pre)

\* an entry appended to a registry that was not empty
C2_Witness ==
    /\ IsCall("get_or_register_ty")
    /\ Len(call.pre) > 0
    /\ Len(registry) = Len(call.pre) + 1
    /\ Ret.id = Len(call.pre)

PrimWidth(p) ==
    CASE p \in {"U8", "I8"} -> 8 [] p \in {"U16", "I16"} -> 16
      [] p \in {"U32", "I32"} -> 32 [] p \in {"U64", "I64"} -> 64
      [] p \in {"U128", "I128"} -> 128 [] p \in {"U256", "I256"} -> 256
      [] OTHER -> 0
PrimSigned(p) == p \in {"I8", "I16", "I32", "I64", "I128", "I256"}
PowersOfTwo == { 2^k : k \in 0..9 }

\* C4: Uint(n) and Int(n) with 8 <= n <= 256 resolve to the primitive whose
\* width is the smallest power of two >= n, with the source's signedness.
C4_WidthWidening ==
    (IsCall("resolve_ast") /\ Arg.tag \in {"Uint", "Int"} /\ 8 <= Arg.n /\ Arg.n <= 256) =>
        /\ Returned
        /\ Ret.ty.def = "Primitive"
        /\ PrimWidth(Ret.ty.prim) \in PowersOfTwo
        /\ PrimWidth(Ret.ty.prim) >= Arg.n
        /\ \A p \in PowersOfTwo : p >= Arg.n => PrimWidth(Ret.ty.prim) <= p
        /\ (Arg.n \in PowersOfTwo => PrimWidth(Ret.ty.prim) = Arg.n)
        /\ PrimSigned(Ret.ty.prim) = (Arg.tag = "Int")
        /\ registry[Ret.id + 1] = Ret

\* uint24 resolved to u32 in a registry that held other entries
C4_Witness ==
    /\ IsCall("resolve_ast") /\ Arg = Uint(24)
    /\ Returned /\ Ret.ty = Primitive("U32")
    /\ Len(call.pre) = 1

\* C5: resolving an integer wider than 256 bits ends the pass in the failure
\* outcome (the unreachable!() panic, which nothing catches) and adds no
\* registry entry.
C5_TooWide ==
    (IsCall("resolve_ast") /\ Arg.tag \in {"Uint", "Int"} /\ Arg.n > 256) =>
        /\ ~Returned
        /\ status = "panic"
        /\ registry = call.pre
        /\ project = None

C5_Witness ==
    /\ IsCall("resolve_ast") /\ Arg = Uint(300)
    /\ status = "panic"

\* C7: Ref(T), StorageRef(T) and a user type aliasing T resolve to the id T
\* resolves to from the same registry, and leave the registry as resolving T
\* leaves it.
C7_Transparent ==
    /\ (IsCall("resolve_ast") /\ Arg.tag \in {"Ref", "StorageRef"}) =>
          LET direct == resolve_ast(Arg.inner, ns, call.pre, cache)
          IN  call.ret = direct.ret /\ registry = direct.registry
    /\ (IsCall("resolve_ast") /\ Arg.tag = "UserType") =>
          LET direct == resolve_ast(ns.user_types[Arg.no + 1].ty, ns, call.pre, cache)
          IN  call.ret = direct.ret /\ registry = direct.registry

\* a reference to a struct resolved in a registry that already held entries
\* but not yet the struct's
C7_Witness ==
    /\ IsCall("resolve_ast") /\ Arg = Ref(Struct(0))
    /\ Returned /\ Ret.ty.def = "Composite"
    /\ Len(call.pre) > 0
    /\ Len(registry) > Len(call.pre)

\* C8: an enum resolves to a Variant whose variants are in ascending order of
\* index, are exactly the declared (name, discriminant) pairs, and carry no
\* fields.
C8_EnumOrder ==
    (IsCall("resolve_ast") /\ Arg.tag = "Enum") =>
        LET decl == ns.enums[Arg.no + 1].values
            vs == Ret.ty.variants
        IN  /\ Returned
            /\ Ret.ty.def = "Variant"
            /\ Len(vs) = Len(decl)
            /\ \A i, j \in 1..Len(vs) : i < j => vs[i].index < vs[j].index
            /\ { <<vs[i].name, vs[i].index>> : i \in 1..Len(vs) }
                   = { <<decl[i].name, decl[i].disc>> : i \in 1..Len(decl) }
            /\ \A i \in 1..Len(vs) : vs[i].fields = <<>>

\* the spec's example: {C: 2, A: 0, B: 1} gives [A(0), B(1), C(2)]
C8_Witness ==
    /\ IsCall("resolve_ast") /\ Arg = Enum(0)
    /\ ns.enums[1].values = LettersCAB
    /\ Returned
    /\ Ret.ty.variants = << Variant("A", <<>>, 0), Variant("B", <<>>, 1), Variant("C", <<>>, 2) >>


----------------------------------------------------------------------------
(* Properties of one run of gen_project *)

\* the type ids an entry refers to
NestedIds(ty) ==
    CASE ty.def = "Composite" -> { ty.fields[i].ty : i \in 1..Len(ty.fields) }
      [] ty.def \in {"Array", "Sequence"} -> { ty.type_param }
      [] OTHER -> {}

\* C3: every type id nested in the entry at position i (positions counted
\* from 0, as ids are) is strictly less than i.
C3_NoForwardReferences ==
    \A i \in 1..Len(registry) :
        \A k \in NestedIds(registry[i].ty) : k < i - 1

\* a registry holding a tuple composite of a message and a wrapper of a wrapper
C3_Witness ==
    /\ IsCall("f_to_message") /\ Returned
    /\ Ret.returns # None
    /\ registry[Unwrap(Ret.returns) + 1].ty.def = "Composite"
    /\ \E i, j \in 1..Len(registry) :
          /\ registry[i].ty.def = "Sequence"
          /\ registry[j].ty.def = "Array"
          /\ registry[i].ty.type_param = registry[j].id

\* the tags the match of resolve_ast has an arm for
ResolvedTags ==
    { "Address", "Contract", "Bool", "Int", "Uint", "String", "Array", "Bytes",
      "DynamicBytes", "Struct", "Enum", "Ref", "StorageRef", "InternalFunction",
      "ExternalFunction", "UserType" }

\* ty is, or contains, a type outside the resolution rules
RECURSIVE Outside(_, _)
Outside(ty, n) ==
    CASE ty.tag \notin ResolvedTags -> TRUE
      [] ty.tag = "Array" -> Outside(ty.elem, n)
      [] ty.tag \in {"Ref", "StorageRef"} -> Outside(ty.inner, n)
      [] ty.tag = "UserType" -> Outside(n.user_types[ty.no + 1].ty, n)
      [] ty.tag = "Struct" ->
            \E i \in 1..Len(n.structs[ty.no + 1].fields) :
                Outside(n.structs[ty.no + 1].fields[i].ty, n)
      [] OTHER -> FALSE

TypesOf(ps) == { ps[i].ty : i \in 1..Len(ps) }

\* the source types a step of gen_project hands to resolve_ast
ResolvedTypes(op, item) ==
    CASE op = "layout_field" ->
            IF ~contains_mapping(item.ty, ns) /\ item.fits_in_memory THEN {item.ty} ELSE {}
      [] op = "f_to_constructor" -> TypesOf(item.params)
      [] op = "f_to_message" -> TypesOf(item.returns) \cup TypesOf(item.params)
      [] op = "e_to_evt" -> TypesOf(item.fields)
      [] OTHER -> {}

Representable(var) == ~contains_mapping(var.ty, ns) /\ var.fits_in_memory

\* C6: a step that meets a type outside the resolution rules ends the run in
\* the failure outcome, and a run fails for no other reason; a failed or
\* unfinished run has returned no project, and a returned project is complete:
\* it has every constructor, message and event of the contract and a cell for
\* every representable variable.
C6_AllOrNothing ==
    /\ (call.arg # None /\ \E ty \in ResolvedTypes(call.op, Arg) : Outside(ty, ns))
          => (status = "panic" /\ ~Returned)
    /\ status = "panic" =>
          /\ project = None
          /\ pc # "returned"
          /\ \E ty \in ResolvedTypes(call.op, Arg) : Outside(ty, ns)
    /\ status = "running" => project = None
    /\ project # None =>
          /\ status = "done"
          /\ Len(Unwrap(project).spec.constructors) = Len(Items(contract, ns, "constructors"))
          /\ Len(Unwrap(project).spec.messages) = Len(Items(contract, ns, "messages"))
          /\ Len(Unwrap(project).spec.events) = Len(Items(contract, ns, "events"))
          /\ Len(Unwrap(project).layout) = Len(SelectSeq(contract.layout, Representable))
          /\ Unwrap(project).registry = registry

\* a run that failed on its second message, after a first one was built
C6_Witness ==
    /\ status = "panic"
    /\ IsCall("f_to_message")
    /\ Len(messages) = 1
    /\ Len(registry) > 0
    /\ project = None

IsTupleCall == IsCall("f_to_message") /\ Returned /\ Len(Arg.returns) >= 2
TupleId == Unwrap(Ret.returns)

\* C9 as stated: the return type id of a message with two or more return
\* values is that of a composite registered by this very message, equal to no
\* other entry.
C9_FreshlyRegistered ==
    IsTupleCall =>
        /\ Ret.returns # None
        /\ TupleId >= Len(call.pre)
        /\ registry[TupleId + 1].ty.def = "Composite"
        /\ \A j \in 1..Len(registry) :
               registry[j].ty = registry[TupleId + 1].ty => j = TupleId + 1

\* C9 as amended: the id is that of a composite equal to no other entry, never
\* the entry of a struct (whatever the struct's field names), and registered
\* by this message unless an earlier message already returned it.
C9_TupleComposite ==
    IsTupleCall =>
        /\ Ret.returns # None
        /\ TupleId < Len(registry)
        /\ registry[TupleId + 1].ty.def = "Composite"
        /\ \A j \in 1..Len(registry) :
               registry[j].ty = registry[TupleId + 1].ty => j = TupleId + 1
        /\ \A no \in 0..(Len(ns.structs) - 1) :
               LET s == resolve_ast(Struct(no), ns, registry, cache)
               IN  s.ret # None => Unwrap(s.ret).id # TupleId
        /\ \/ TupleId >= Len(call.pre)
           \/ \E i \in 1..(Len(messages) - 1) : messages[i].returns = Some(TupleId)

\* a message returning (uint32 a, bool b) while the entry of the struct
\* {uint32 a; bool b} is in the registry
C9_Witness ==
    /\ IsTupleCall
    /\ Arg.name = "named"
    /\ \E j \in 1..Len(call.pre) :
          call.pre[j] = Unwrap(resolve_ast(Struct(0), ns, call.pre, cache).ret)
    /\ TupleId >= Len(call.pre)

\* C10: no return value gives no return spec, one gives the id its type
\* resolves to, and two or more give the id of a composite with one field per
\* return value, in order, all named if every return value is named and all
\* unnamed otherwise.
C10_ReturnSpec ==
    (IsCall("f_to_message") /\ Returned) =>
        LET rs == Arg.returns
        IN  CASE Len(rs) = 0 -> Ret.returns = None
              [] Len(rs) = 1 ->
                    /\ Ret.returns # None
                    /\ Some(registry[TupleId + 1]) = resolve_ast(rs[1].ty, ns, call.pre, cache).ret
              [] OTHER ->
                    /\ Ret.returns # None
                    /\ registry[TupleId + 1].ty.def = "Composite"
                    /\ LET fs == registry[TupleId + 1].ty.fields
                       IN  /\ Len(fs) = Len(rs)
                           /\ \A i \in 1..Len(rs) :
                                  Some(registry[fs[i].ty + 1])
                                      = resolve_ast(rs[i].ty, ns, registry, cache).ret
                           /\ IF \A i \in 1..Len(rs) : rs[i].id # None
                              THEN \A i \in 1..Len(rs) : fs[i].name = rs[i].id
                              ELSE \A i \in 1..Len(rs) : fs[i].name = None

----------------------------------------------------------------------------
(* Properties of the layout and of the contract spec *)

\* the variables of the layout the closure has been applied to so far
LayoutDone ==
    IF pc = "layout" THEN SubSeq(contract.layout, 1, idx - 1) ELSE contract.layout

\* the 64 hexadecimal digits a 32-byte key is written with
HexOfKey(key) ==
    [i \in 1..(2 * Len(key)) |->
        IF i % 2 = 1 THEN key[(i + 1) \div 2] \div 16 ELSE key[i \div 2] % 16]

\* the number the last seven of 64 digits stand for
LowValue(ds) ==
    ds[64] + 16 * ds[63] + 256 * ds[62] + 4096 * ds[61] + 65536 * ds[60]
        + 1048576 * ds[59] + 16777216 * ds[58]

\* ds is the slot written with 64 hexadecimal digits
IsKeyOf(ds, slot) ==
    /\ Len(ds) = 64
    /\ \A i \in 1..64 : ds[i] \in 0..15
    /\ \A i \in 1..57 : ds[i] = 0
    /\ LowValue(ds) = slot

\* C11: the cells built so far are those of the variables met so far whose
\* type holds no mapping and fits in memory, one cell each and in declaration
\* order; a cell has the variable's name, its slot as a key of 64 hexadecimal
\* digits and the id of the entry its type resolves to; the layout of the
\* returned project is these cells.
C11_StorageLayout ==
    /\ Len(fields) = Len(SelectSeq(LayoutDone, Representable))
    /\ \A i \in 1..Len(fields) :
           /\ fields[i].name = SelectSeq(LayoutDone, Representable)[i].name
           /\ IsKeyOf(HexOfKey(fields[i].key), SelectSeq(LayoutDone, Representable)[i].slot)
           /\ fields[i].ty < Len(registry)
           /\ resolve_ast(SelectSeq(LayoutDone, Representable)[i].ty, ns, registry, cache)
                  = Ok(registry, registry[fields[i].ty + 1])
    /\ project # None => Unwrap(project).layout = fields

\* a returned layout of one cell for two variables, the second a mapping
C11_Witness ==
    /\ project # None
    /\ Len(contract.layout) = 2
    /\ contract.layout[2].ty = Mapping
    /\ Len(Unwrap(project).layout) = 1
    /\ Unwrap(project).layout[1].name = "pair"
    /\ LowValue(HexOfKey(Unwrap(project).layout[1].key)) = 4660

\* the functions of the contract in the order of their numbers
FunctionsByNumber == [i \in 1..Len(keys(contract.all_functions)) |->
                         ns.functions[keys(contract.all_functions)[i] + 1]]

\* public or external, a plain function, and not of a library
Callable(f) ==
    /\ f.visibility \in {"Public", "External"}
    /\ f.ty \notin {"Constructor", "Fallback", "Receive", "Modifier"}
    /\ ~f.library

\* the functions f_to_message has been applied to so far
MessagesDone ==
    CASE pc = "messages" -> idx - 1
      [] pc \in {"layout", "constructors"} -> 0
      [] OTHER -> Len(SelectSeq(FunctionsByNumber, Callable))

\* C12: the messages built so far are, one for one and in order, the callable
\* functions met so far: message i has the name and the selector of the i-th
\* of them, also when two of them have the same selector; the messages of
\* the returned project are these.
C12_MessagesOneToOne ==
    /\ status # "panic" => Len(messages) = MessagesDone
    /\ Len(messages) <= Len(SelectSeq(FunctionsByNumber, Callable))
    /\ \A i \in 1..Len(messages) :
           /\ messages[i].label = SelectSeq(FunctionsByNumber, Callable)[i].name
           /\ messages[i].selector = SelectSeq(FunctionsByNumber, Callable)[i].selector
    /\ project # None =>
           /\ Unwrap(project).spec.messages = messages
           /\ Len(messages) = Cardinality({ k \in contract.all_functions :
                                               Callable(ns.functions[k + 1]) })

\* a project with two messages of one selector, from a contract that also has
\* a function that is no message
C12_Witness ==
    /\ project # None
    /\ Cardinality(contract.all_functions) = 3
    /\ Len(Unwrap(project).spec.messages) = 2
    /\ Unwrap(project).spec.messages[1].selector = Unwrap(project).spec.messages[2].selector
    /\ Unwrap(project).spec.messages[1].label # Unwrap(project).spec.messages[2].label

\* the functions of the contract marked as constructors, in order, and then
\* its default constructor
DeclaredConstructors ==
    SelectSeq([i \in 1..Len(contract.functions) |-> ns.functions[contract.functions[i] + 1]],
              LAMBDA f : f.ty = "Constructor")
        \o (IF contract.default_constructor = None
            THEN <<>>
            ELSE <<Unwrap(contract.default_constructor)>>)

\* C13: the constructors built so far are, in order, the contract's
\* constructor functions and then its default constructor; each has label
\* "new", is payable exactly if the function's mutability is payable, and has
\* one parameter spec per declared parameter, in declared order, with the
\* parameter's name and the id its type resolves to.
C13_Constructors ==
    /\ Len(constructors) <= Len(DeclaredConstructors)
    /\ (status # "panic" /\ pc \notin {"layout", "constructors"})
           => Len(constructors) = Len(DeclaredConstructors)
    /\ \A i \in 1..Len(constructors) :
           /\ constructors[i].label = "new"
           /\ constructors[i].selector = DeclaredConstructors[i].selector
           /\ constructors[i].payable = (DeclaredConstructors[i].mutability = "Payable")
           /\ Len(constructors[i].args) = Len(DeclaredConstructors[i].params)
           /\ \A k \in 1..Len(constructors[i].args) :
                  /\ constructors[i].args[k].label = DeclaredConstructors[i].params[k].name
                  /\ constructors[i].args[k].ty < Len(registry)
                  /\ resolve_ast(DeclaredConstructors[i].params[k].ty, ns, registry, cache)
                         = Ok(registry, registry[constructors[i].args[k].ty + 1])
    /\ project # None => Unwrap(project).spec.constructors = constructors

\* a project with a payable constructor, one that is not, and the default one
C13_Witness ==
    /\ project # None
    /\ Len(Unwrap(project).spec.constructors) = 3
    /\ Unwrap(project).spec.constructors[1].payable
    /\ ~Unwrap(project).spec.constructors[2].payable
    /\ Len(Unwrap(project).spec.constructors[2].args) = 2
    /\ Unwrap(project).spec.constructors[3].selector = DefaultConstructor.selector

IsExample ==
    /\ Len(contract.layout) = 1
    /\ contract.layout[1].ty = Uint(8) /\ contract.layout[1].slot = 0
    /\ Len(DeclaredConstructors) = 1
    /\ DeclaredConstructors[1].params = <<>>
    /\ Len(SelectSeq(FunctionsByNumber, Callable)) = 1
    /\ SelectSeq(FunctionsByNumber, Callable)[1].name = "get"
    /\ SelectSeq(FunctionsByNumber, Callable)[1].params = <<>>
    /\ TypesOf(SelectSeq(FunctionsByNumber, Callable)[1].returns) = {Uint(8)}
    /\ contract.sends_events = <<>>

\* C15: the project returned for that contract has a registry of exactly one
\* entry, the u8 primitive with id 0, a layout of exactly one cell, named
\* after the variable, with a key of 64 zeros and type id 0, and one message
\* whose return type id is 0.
C15_Example ==
    (project # None /\ IsExample) =>
        /\ Unwrap(project).registry = <<PortableType(0, Primitive("U8"))>>
        /\ Len(Unwrap(project).layout) = 1
        /\ Unwrap(project).layout[1].name = contract.layout[1].name
        /\ HexOfKey(Unwrap(project).layout[1].key) = [i \in 1..64 |-> 0]
        /\ Unwrap(project).layout[1].ty = 0
        /\ Len(Unwrap(project).spec.constructors) = 1
        /\ Unwrap(project).spec.constructors[1].args = <<>>
        /\ Len(Unwrap(project).spec.messages) = 1
        /\ Unwrap(project).spec.messages[1].label = "get"
        /\ Unwrap(project).spec.messages[1].returns = Some(0)

\* the project of the example has been returned
C15_Witness ==
    /\ project # None
    /\ IsExample
    /\ contract.layout[1].name = "count"
    /\ Len(registry) = 1

----------------------------------------------------------------------------
(* Properties of the array and function arms *)

\* the entry id of reg wraps the entry base once per dimension of dims, the
\* first dimension innermost and the last outermost, every wrapper after
\* what it wraps
RECURSIVE WrapsTo(_, _, _, _)
WrapsTo(id, dims, base, reg) ==
    IF dims = <<>>
    THEN id = base
    ELSE /\ id < Len(reg)
         /\ reg[id + 1].id = id
         /\ IF dims[Len(dims)].fixed
            THEN /\ reg[id + 1].ty.def = "Array"
                 /\ reg[id + 1].ty.len = dims[Len(dims)].len
            ELSE reg[id + 1].ty.def = "Sequence"
         /\ reg[id + 1].ty.type_param < id
         /\ WrapsTo(reg[id + 1].ty.type_param, SubSeq(dims, 1, Len(dims) - 1), base, reg)

\* C16: a call on an array type fails if its element type fails, leaving
\* what the element left; otherwise the registry begins with what resolving
\* the element alone leaves, grows by one entry per dimension at most, and
\* the entry returned wraps the element's entry once per dimension in the
\* order of the dimensions: an Array of the dimension's length for a fixed
\* dimension, a Sequence for a dynamic one.
C16_ArrayNesting ==
    (IsCall("resolve_ast") /\ Arg.tag = "Array") =>
        IF resolve_ast(Arg.elem, ns, call.pre, cache).ret = None
        THEN /\ ~Returned
             /\ registry = resolve_ast(Arg.elem, ns, call.pre, cache).registry
        ELSE /\ Returned
             /\ IsPrefix(resolve_ast(Arg.elem, ns, call.pre, cache).registry, registry)
             /\ Len(registry) <= Len(resolve_ast(Arg.elem, ns, call.pre, cache).registry)
                                     + Len(Arg.dims)
             /\ WrapsTo(Ret.id, Arg.dims,
                        Unwrap(resolve_ast(Arg.elem, ns, call.pre, cache).ret).id, registry)
             /\ registry[Ret.id + 1] = Ret

\* struct Pair [2][] resolved: a Sequence of an Array of 2 of the struct
C16_Witness ==
    /\ IsCall("resolve_ast") /\ Returned
    /\ Arg = Array(Struct(0), <<Fixed(2), Dynamic>>)
    /\ Ret.ty.def = "Sequence"
    /\ registry[Ret.ty.type_param + 1].ty = TypeDefArray(2, Ret.ty.type_param - 1)
    /\ registry[Ret.ty.type_param].ty.def = "Composite"

\* C17: a call on a function type, internal or external, returns a composite
\* of exactly two unnamed fields, the first the id of the entry the address
\* type resolves to and the second the id of the u32 primitive.
C17_FunctionComposite ==
    (IsCall("resolve_ast") /\ Arg.tag \in {"InternalFunction", "ExternalFunction"}) =>
        /\ Returned
        /\ Ret.ty.def = "Composite"
        /\ Len(Ret.ty.fields) = 2
        /\ \A i \in 1..2 : Ret.ty.fields[i].name = None
        /\ resolve_ast(Address, ns, registry, cache)
               = Ok(registry, registry[Ret.ty.fields[1].ty + 1])
        /\ registry[Ret.ty.fields[2].ty + 1].ty = Primitive("U32")

\* C18: once a call on T has returned the entry e, the cache holds e for T,
\* and the entries the cache holds are entries of the registry.
C18_CachePopulated ==
    /\ \A r \in returned :
           r.op = "resolve_ast" => (r.arg \in DOMAIN cache /\ cache[r.arg] = r.ret)
    /\ \A T \in DOMAIN cache :
           \E i \in 1..Len(registry) : registry[i] = cache[T]

----------------------------------------------------------------------------
(* Properties of the ids a project refers to *)

\* id is an id of the registry, and its entry is the one ty resolves to
ResolvesTo(id, ty) ==
    /\ id < Len(registry)
    /\ registry[id + 1].id = id
    /\ resolve_ast(ty, ns, registry, cache) = Ok(registry, registry[id + 1])

\* the ids of the parameter specs args are those of the declared parameters ps
ArgsResolve(args, ps) ==
    /\ Len(args) = Len(ps)
    /\ \A k \in 1..Len(args) : ResolvesTo(args[k].ty, ps[k].ty)

\* the return spec rt is the one of the declared return values rs
ReturnResolves(rt, rs) ==
    CASE Len(rs) = 0 -> rt = None
      [] Len(rs) = 1 -> rt # None /\ ResolvesTo(Unwrap(rt), rs[1].ty)
      [] OTHER ->
            /\ rt # None
            /\ Unwrap(rt) < Len(registry)
            /\ registry[Unwrap(rt) + 1].id = Unwrap(rt)
            /\ registry[Unwrap(rt) + 1].ty.def = "Composite"
            /\ ArgsResolve(registry[Unwrap(rt) + 1].ty.fields, rs)

\* the events of the contract, in the order it sends them
SentEvents == [i \in 1..Len(contract.sends_events) |-> ns.events[contract.sends_events[i] + 1]]

\* C19: every type id held by a cell, a constructor or message parameter
\* spec, a message return spec or an event parameter spec built so far is
\* less than the length of the registry, and the entry at that id is the one
\* the source type it was built from resolves to; the returned project holds
\* these cells and specs and this registry.
C19_IdsInRegistry ==
    /\ \A i \in 1..Len(fields) :
           ResolvesTo(fields[i].ty, SelectSeq(LayoutDone, Representable)[i].ty)
    /\ \A i \in 1..Len(constructors) :
           ArgsResolve(constructors[i].args, DeclaredConstructors[i].params)
    /\ \A i \in 1..Len(messages) :
           /\ ArgsResolve(messages[i].args, SelectSeq(FunctionsByNumber, Callable)[i].params)
           /\ ReturnResolves(messages[i].returns,
                             SelectSeq(FunctionsByNumber, Callable)[i].returns)
    /\ \A i \in 1..Len(events) :
           ArgsResolve(events[i].args, SentEvents[i].fields)
    /\ project # None =>
           Unwrap(project) = [layout |-> fields,
                              spec |-> [constructors |-> constructors,
                                        messages |-> messages,
                                        events |-> events],
                              registry |-> registry]

\* a project with a cell, a constructor with a parameter, a message with a
\* parameter and two return values, and an event
C19_Witness ==
    /\ project # None
    /\ Len(Unwrap(project).layout) >= 1
    /\ \E i \in 1..Len(constructors) : Len(constructors[i].args) >= 1
    /\ \E i \in 1..Len(messages) :
          /\ Len(messages[i].args) >= 1
          /\ Len(SelectSeq(FunctionsByNumber, Callable)[i].returns) = 2
    /\ Len(Unwrap(project).spec.events) = 1

====
